---- MODULE Spec2Model ----
(***************************************************************************)
(* Batch lifecycle of the PDF-to-QuickBooks pipeline: batch creation       *)
(* (admission), per-file ingestion, batch completion with usage            *)
(* accounting, CSV export and subscription activation, modelled over the   *)
(* persistence store (profiles, accounts, batches, extractions).  Every    *)
(* route handler is a process whose steps are the awaited store or service *)
(* calls of its source, so that requests interleave exactly where the code *)
(* can be suspended.                                                       *)
(***************************************************************************)
EXTENDS Integers, Sequences, FiniteSets, TLC

(* ------------------------------ bounds --------------------------------- *)
\* batch records the store holds
MaxBatches == 2
\* extraction records the store holds
MaxExtractions == 2

(* --------------------------- program constants -------------------------- *)
\* monthly page cap
UsageCap == 1500
\* largest admitted file count
MaxFilesPerBatch == 10
\* largest admitted upload, in bytes
MaxFileSize == 10485760
\* digits of the largest amount an edit may store, 999999999999
MaxAmountDigits == 12

(* ------------------------------ store ----------------------------------- *)
NoUser == "anonymous"
Users == {"u1", "u2"}
Accounts == {"a1", "a2"}
\* accounts table: id -> user_id
AccountOwner == [a \in Accounts |-> IF a = "a1" THEN "u1" ELSE "u2"]
CsvFormats == {"3-column", "4-column"}

\* handler slots: requests in flight at the same time
Reqs == {1, 2}

\* request bodies a client may send to the batch-creation route:
\* <<fileCount, totalPages, csvFormat>>
CreateBodies == {<<1, 5, "3-column">>, <<1, 10, "4-column">>, <<-1, -5, "4-column">>,
                 <<0, 5, "3-column">>, <<1, 0, "3-column">>, <<11, 5, "3-column">>,
                 <<1, 5, "5-column">>}
\* callers: the users and a caller without a valid token
Callers == Users \cup {NoUser}
\* batch ids a client may send: none (0), or any id the store can hold
BatchIdInputs == 0..MaxBatches
\* requests to the batch-creation route: <<caller, accountId, body>>; a body
\* that fails validation is rejected before the caller and the account are read
CreateRequests ==
    {q \in Callers \X Accounts \X CreateBodies :
        \/ q[1] \in Users /\ q[3][1] \in {-1, 1} /\ q[3][2] # 0 /\ q[3][3] \in CsvFormats
        \/ q[1] = "u1" /\ q[2] = "a1"
        \/ q[2] = "a1" /\ q[3] = <<1, 5, "3-column">>}
\* requests that name a batch: <<caller, batchId>>
BatchRequests ==
    {q \in Callers \X BatchIdInputs : q[1] \in Users \/ q[2] = 1}
\* usage counters a profile may hold at the start of the observed window
InitialUsages == {1495}
\* a well-formed upload
ValidForm == [name |-> "a.pdf", type |-> "application/pdf", size |-> 1024,
              format |-> "3-column"]
\* forms a client may post to the process-file route
FormInputs ==
    {[name |-> "a.pdf", type |-> "application/pdf", size |-> 1024, format |-> "3-column"],
     [name |-> "a.pdf", type |-> "application/pdf", size |-> 1024, format |-> ""],
     [name |-> "a.txt", type |-> "text/plain", size |-> 1024, format |-> "3-column"],
     [name |-> "big.pdf", type |-> "application/pdf", size |-> 10485761,
      format |-> "3-column"]}
\* requests to the process-file route: <<caller, batchId, form>>; a malformed
\* form is rejected before the caller and the batch are read
ProcessFileRequests ==
    {q \in Callers \X BatchIdInputs \X FormInputs :
        /\ <<q[1], q[2]>> \in BatchRequests
        /\ q[3] = ValidForm \/ (q[1] = "u1" /\ q[2] = 1)}
\* text values are sequences of characters, so that parsing and formatting
\* can be computed; these are the texts the model's clients and services use
Unknown == <<"U", "n", "k", "n", "o", "w", "n">>
Zero == <<"0">>
Missing == << >>
AcmeCorp == <<"A", "c", "m", "e">>
\* what the two services may answer for one file: the JSON object of the
\* extraction service (the empty text for a field it leaves out; its prompt
\* asks for "Unknown" when a field cannot be determined and, in the 3-column
\* format, for negative amounts on expenses), the answer of the
\* classification service (one of the two types, another word, a text
\* without a JSON object, or a network failure) and the outcome of the
\* fallback rules where they are consulted (a type, or a TypeError)
ServiceAnswers ==
    {[vendor |-> AcmeCorp, amount |-> <<"2", "5", ".", "9", "9">>,
      ai |-> "income", fallback |-> "expense"],
     [vendor |-> AcmeCorp, amount |-> <<"-", "2", "5", ".", "9", "9">>,
      ai |-> "expense", fallback |-> "expense"],
     [vendor |-> Missing, amount |-> Missing,
      ai |-> "transfer", fallback |-> "income"],
     [vendor |-> Unknown, amount |-> Unknown,
      ai |-> "no json", fallback |-> "expense"],
     [vendor |-> AcmeCorp, amount |-> <<"2", "5", ".", "9", "9">>,
      ai |-> "http error", fallback |-> "TypeError"]}
NoData == [vendor |-> Missing, amount |-> Missing, transaction_type |-> ""]
TransactionTypes == {"income", "expense"}
\* longest vendor name an edit may store
MaxVendorLength == 100
\* extraction ids a client may send: an id no record has (0), or any id the
\* store can hold
ExtractionIdInputs == 0..MaxExtractions
\* <<field, value>> bodies a client may send to the field-update route
UpdateBodies ==
    {<<"amount", <<"$", "1", ",", "2", "3", "4", ".", "5", "0">> >>,
     <<"amount", <<"-", "5">> >>,
     <<"amount", <<"x">> >>,
     <<"amount", <<"1", "0", "0", "0", "0", "0", "0", "0", "0", "0", "0", "0", "0">> >>,
     <<"amount", Missing>>,
     <<"vendor", AcmeCorp>>,
     <<"vendor", <<" ">> >>,
     <<"vendor", [i \in 1..(MaxVendorLength + 1) |-> "v"]>>,
     <<"transaction_type", <<"i", "n", "c", "o", "m", "e">> >>,
     <<"", AcmeCorp>>}
\* requests to the field-update route: <<caller, extractionId, body>>; a body
\* that names no editable field is rejected before anything is read
UpdateRequests ==
    {q \in Callers \X ExtractionIdInputs \X UpdateBodies :
        \/ q[1] \in Users /\ q[3] \in {<<"vendor", AcmeCorp>>,
                                        <<"amount", <<"$", "1", ",", "2", "3", "4", ".", "5", "0">> >>}
        \/ q[2] = 1 /\ q[3] = <<"vendor", AcmeCorp>>
        \/ q[1] = "u2" /\ q[2] = 1}

VARIABLES
    profiles,      \* user id -> [subscription_status, monthly_usage]
    batches,       \* sequence of batch records, the id is the index
    extractions,   \* sequence of extraction records in created_at order
    req,           \* handler slot -> state of the request in flight on it
    resp,          \* the response sent by the step that led here, if it sent one
    usage_applied, \* history: batch id -> successful update_monthly_usage calls
    widget,        \* the batch-processing widget of u1: its run of processBatch
    call           \* a call of a function of the code: its arguments and result
vars == <<profiles, batches, extractions, req, resp, usage_applied, widget, call>>

Idle == [kind |-> "none", pc |-> "idle"]
\* no function call under observation
NoCall == [fn |-> "none", args |-> << >>, returned |-> FALSE, result |-> << >>]
\* the widget when no batch run is under way
WidgetIdle == [pc |-> "idle", files |-> 0, i |-> 0, batchId |-> 0]
NoResponse == [kind |-> "none", user |-> NoUser, status |-> 0, batchId |-> 0, body |-> << >>]

BatchIds == 1..Len(batches)

\* a batch left in 'failed' by an operator (no handler writes that status)
FailedSeed == [account_id |-> "a1", file_count |-> 1, total_pages |-> 5,
               csv_format |-> "3-column", status |-> "failed", processed_at |-> 0]

\* u1 subscribes and is close to the cap; u2 has no active subscription
InitialProfiles ==
    {[u \in Users |->
        IF u = "u1" THEN [subscription_status |-> "active", monthly_usage |-> m]
        ELSE [subscription_status |-> "inactive", monthly_usage |-> 0]] :
     m \in InitialUsages}

Init ==
    /\ profiles \in InitialProfiles
    /\ batches \in {<< >>, <<FailedSeed>>}
    /\ extractions = << >>
    /\ req = [r \in Reqs |-> Idle]
    /\ resp = NoResponse
    /\ usage_applied = [b \in 1..MaxBatches |-> 0]
    /\ widget = WidgetIdle
    /\ call = NoCall

\* a slot can take a new request
Free(r) == req[r].pc = "idle" /\ \A q \in Reqs : q < r => req[q].pc # "idle"

\* handlers of the given route in flight
InFlight(kind) == {r \in Reqs : req[r].kind = kind}

\* a response: the route, the caller, the HTTP status, the batch and the body
Response(kind, u, code, b, body) ==
    [kind |-> kind, user |-> u, status |-> code, batchId |-> b, body |-> body]

\* an error response: the route and the HTTP status
ErrorResponse(kind, code) == Response(kind, NoUser, code, 0, << >>)

\* the handler on slot r returns an error response
Reject(r, code) ==
    /\ resp' = ErrorResponse(req[r].kind, code)
    /\ req' = [req EXCEPT ![r] = Idle]

\* the handler on slot r moves to its next awaited call
Goto(r, pc) ==
    /\ req' = [req EXCEPT ![r].pc = pc]
    /\ resp' = NoResponse

\* JavaScript truthiness of a numeric request field: !v holds for 0
Falsy(v) == v = 0

(* --------------------------- texts and numbers -------------------------- *)
Digits == {"0", "1", "2", "3", "4", "5", "6", "7", "8", "9"}

\* String.prototype.trim() === '': nothing but whitespace
Blank(text) == \A i \in 1..Len(text) : text[i] = " "

\* text.replace(/[$,\s]/g, '')
StripSymbols(text) == SelectSeq(text, LAMBDA c : c \notin {"$", ",", " "})

RECURSIVE TakeDigits(_)
\* the longest prefix of decimal digits
TakeDigits(text) ==
    IF text = << >> \/ Head(text) \notin Digits THEN << >>
    ELSE <<Head(text)>> \o TakeDigits(Tail(text))

RECURSIVE StripLeadingZeros(_)
StripLeadingZeros(digits) ==
    IF digits # << >> /\ Head(digits) = "0" THEN StripLeadingZeros(Tail(digits))
    ELSE digits

RECURSIVE StripTrailingZeros(_)
StripTrailingZeros(digits) ==
    IF digits # << >> /\ digits[Len(digits)] = "0"
    THEN StripTrailingZeros(SubSeq(digits, 1, Len(digits) - 1))
    ELSE digits

\* a number: its sign, the digits of its integer part without leading zeros
\* and the digits of its fraction without trailing zeros
NaN == [neg |-> FALSE, int |-> <<"NaN">>, frac |-> << >>]
IsZero(num) == num.int = << >> /\ num.frac = << >>

\* parseFloat: an optional sign, digits, an optional fraction; whatever
\* follows is ignored; NaN when no digit is found
parseFloat(text) ==
    LET signed == text # << >> /\ Head(text) \in {"-", "+"}
        body == IF signed THEN Tail(text) ELSE text
        int == TakeDigits(body)
        rest == SubSeq(body, Len(int) + 1, Len(body))
        frac == IF rest # << >> /\ Head(rest) = "." THEN TakeDigits(Tail(rest))
                ELSE << >>
    IN IF int = << >> /\ frac = << >> THEN NaN
       ELSE [neg |-> signed /\ Head(text) = "-",
             int |-> StripLeadingZeros(int),
             frac |-> StripTrailingZeros(frac)]

\* unary minus
Negate(num) == [num EXCEPT !.neg = ~@]

\* num < 0 (false for -0)
Negative(num) == num.neg /\ ~IsZero(num)

\* num > 999999999999
TooLarge(num) ==
    /\ ~num.neg
    /\ \/ Len(num.int) > MaxAmountDigits
       \/ /\ Len(num.int) = MaxAmountDigits
          /\ \A i \in 1..MaxAmountDigits : num.int[i] = "9"
          /\ num.frac # << >>

\* Number.prototype.toString, for magnitudes printed without an exponent
NumberToString(num) ==
    (IF Negative(num) THEN <<"-">> ELSE << >>)
    \o (IF num.int = << >> THEN <<"0">> ELSE num.int)
    \o (IF num.frac = << >> THEN << >> ELSE <<".">> \o num.frac)

(* ----------------------- POST /api/batch-processing --------------------- *)
\* check_usage_limit(user_uuid, additional_pages): the store's admission test
check_usage_limit(u, additional_pages) ==
    profiles[u].monthly_usage + additional_pages <= UsageCap

\* the widget's own pre-check on its cached profile
wouldExceedLimit(monthly_usage, totalPages) == monthly_usage + totalPages > UsageCap

\* body validation, authentication and the account ownership query
CreateStart(r) ==
    /\ Free(r)
    /\ Len(batches) + Cardinality(InFlight("create")) < MaxBatches
    /\ \E q \in CreateRequests :
          LET u == q[1]
              accountId == q[2]
              fileCount == q[3][1]
              totalPages == q[3][2]
              csvFormat == q[3][3]
              code == IF Falsy(fileCount) \/ Falsy(totalPages) THEN 400
                      ELSE IF fileCount > MaxFilesPerBatch THEN 400
                      ELSE IF csvFormat \notin CsvFormats THEN 400
                      ELSE IF u = NoUser THEN 401
                      ELSE IF AccountOwner[accountId] # u THEN 403
                      ELSE 0
          IN IF code = 0
             THEN /\ req' = [req EXCEPT ![r] =
                               [kind |-> "create", pc |-> "profile", user |-> u,
                                batchId |-> 0, accountId |-> accountId,
                                fileCount |-> fileCount, totalPages |-> totalPages,
                                csvFormat |-> csvFormat]]
                  /\ resp' = NoResponse
             ELSE /\ resp' = ErrorResponse("create", code)
                  /\ UNCHANGED req
    /\ UNCHANGED <<profiles, batches, extractions, usage_applied>>
    /\ UNCHANGED <<widget, call>>

\* the profile query without the subscription check
CreateReadProfile_NoSubscriptionCheck(r) ==
    /\ req[r].kind = "create" /\ req[r].pc = "profile"
    /\ \E profileError \in BOOLEAN :
          IF profileError THEN Reject(r, 404) ELSE Goto(r, "limit")
    /\ UNCHANGED <<profiles, batches, extractions, usage_applied>>
    /\ UNCHANGED <<widget, call>>

\* the profile query and the subscription check
CreateReadProfile(r) ==
    /\ req[r].kind = "create" /\ req[r].pc = "profile"
    /\ \E profileError \in BOOLEAN :
          IF profileError THEN Reject(r, 404)
          ELSE IF profiles[req[r].user].subscription_status # "active"
          THEN Reject(r, 403)
          ELSE Goto(r, "limit")
    /\ UNCHANGED <<profiles, batches, extractions, usage_applied>>
    /\ UNCHANGED <<widget, call>>

\* the check_usage_limit call with the comparison off by one (< for <=)
CreateCheckLimit_Strict(r) ==
    /\ req[r].kind = "create" /\ req[r].pc = "limit"
    /\ \E limitError \in BOOLEAN :
          IF limitError THEN Reject(r, 500)
          ELSE IF ~check_usage_limit(req[r].user, req[r].totalPages + 1)
          THEN Reject(r, 400)
          ELSE Goto(r, "insert")
    /\ UNCHANGED <<profiles, batches, extractions, usage_applied>>
    /\ UNCHANGED <<widget, call>>

\* the check_usage_limit call and its verdict
CreateCheckLimit(r) ==
    /\ req[r].kind = "create" /\ req[r].pc = "limit"
    /\ \E limitError \in BOOLEAN :
          IF limitError THEN Reject(r, 500)
          ELSE IF ~check_usage_limit(req[r].user, req[r].totalPages)
          THEN Reject(r, 400)
          ELSE Goto(r, "insert")
    /\ UNCHANGED <<profiles, batches, extractions, usage_applied>>
    /\ UNCHANGED <<widget, call>>

\* the insert of the batch record, in status 'processing'
CreateInsert(r) ==
    /\ req[r].kind = "create" /\ req[r].pc = "insert"
    /\ \E batchError \in BOOLEAN :
       IF batchError THEN Reject(r, 500) /\ UNCHANGED batches ELSE
       /\ batches' = Append(batches,
                            [account_id |-> req[r].accountId,
                             file_count |-> req[r].fileCount,
                             total_pages |-> req[r].totalPages,
                             csv_format |-> req[r].csvFormat,
                             status |-> "processing", processed_at |-> 0])
       /\ resp' = Response("create", req[r].user, 200, Len(batches) + 1, << >>)
       /\ req' = [req EXCEPT ![r] = Idle]
    /\ UNCHANGED <<profiles, extractions, usage_applied>>
    /\ UNCHANGED <<widget, call>>

(* ------------------ POST /api/batch-processing/complete ----------------- *)
\* the ownership filter left out of the query
OwnedBatch_AnyUser(b, u) == b \in BatchIds

\* the batches row joined with its account, as seen by user u
OwnedBatch(b, u) == b \in BatchIds /\ AccountOwner[batches[b].account_id] = u

\* update_monthly_usage(user_uuid, pages_used): adds the pages to the counter
update_monthly_usage(u, pages_used) ==
    [profiles EXCEPT ![u].monthly_usage = @ + pages_used]

\* new Date().toISOString(): an instant after every instant written before
Later(processed_at) == processed_at + 1

\* the status check left out
NotProcessing_Skipped(status) == FALSE

\* the status check on the batch row that was read
NotProcessing(status) == status # "processing"

\* body check, authentication, the ownership query and the status check of
\* one request
CompleteRequest(r, u, batchId) ==
    /\ Free(r)
    /\    LET code == IF Falsy(batchId) THEN 400
                      ELSE IF u = NoUser THEN 401
                      ELSE IF ~OwnedBatch(batchId, u) THEN 403
                      ELSE IF NotProcessing(batches[batchId].status) THEN 400
                      ELSE 0
          IN IF code = 0
             THEN /\ req' = [req EXCEPT ![r] =
                               [kind |-> "complete", pc |-> "extractions", user |-> u,
                                batchId |-> batchId,
                                total_pages |-> batches[batchId].total_pages]]
                  /\ resp' = NoResponse
             ELSE /\ resp' = Response("complete", NoUser, code, batchId, << >>)
                  /\ UNCHANGED req
    /\ UNCHANGED <<profiles, batches, extractions, usage_applied>>

\* a request of any client to the completion route
CompleteStart(r, u, batchId) ==
    /\ CompleteRequest(r, u, batchId)
    /\ UNCHANGED <<widget, call>>

\* the extractions query ("check if all extractions are complete"): the rows
\* read are only counted for the success response and compared with nothing
CompleteReadExtractions(r) ==
    /\ req[r].kind = "complete" /\ req[r].pc = "extractions"
    /\ \E extractionsError \in BOOLEAN :
          IF extractionsError THEN Reject(r, 500) ELSE Goto(r, "status")
    /\ UNCHANGED <<profiles, batches, extractions, usage_applied>>
    /\ UNCHANGED <<widget, call>>

\* the update of the batch row to 'completed'
CompleteUpdateStatus(r) ==
    /\ req[r].kind = "complete" /\ req[r].pc = "status"
    /\ \E updateError \in BOOLEAN :
          IF updateError
          THEN Reject(r, 500) /\ UNCHANGED batches
          ELSE /\ batches' = [batches EXCEPT ![req[r].batchId].status = "completed",
                                             ![req[r].batchId].processed_at = Later(@)]
               /\ Goto(r, "usage")
    /\ UNCHANGED <<profiles, extractions, usage_applied>>
    /\ UNCHANGED <<widget, call>>

\* the update_monthly_usage call and the success response
CompleteUpdateUsage(r) ==
    /\ req[r].kind = "complete" /\ req[r].pc = "usage"
    /\ \E usageError \in BOOLEAN :
          IF usageError
          THEN UNCHANGED <<profiles, usage_applied>>
          ELSE /\ profiles' = update_monthly_usage(req[r].user, req[r].total_pages)
               /\ usage_applied' = [usage_applied EXCEPT ![req[r].batchId] = @ + 1]
    /\ resp' = Response("complete", req[r].user, 200, req[r].batchId, << >>)
    /\ req' = [req EXCEPT ![r] = Idle]
    /\ UNCHANGED <<batches, extractions>>
    /\ UNCHANGED <<widget, call>>

(* --------------- POST /api/batch-processing/process-file ---------------- *)
\* what the classification service may answer: one of the two types, another
\* word, a text without a JSON object, or nothing at all (network failure)
AIClassifications == {"income", "expense", "transfer", "no json", "http error"}

\* what fallbackClassification may yield: the type its rules select, or a
\* TypeError when the vendor or the description it lowercases is not a string
FallbackOutcomes == {"income", "expense", "TypeError"}

\* classifyTransaction: the AI's type when it is exactly 'income' or
\* 'expense', otherwise the fallback (whose exception is not caught here)
classifyTransaction(ai, fallback) ==
    IF ai \in TransactionTypes THEN ai ELSE fallback

\* the route without its try/catch: the exception takes the place of the type
classifiedType_Rethrown(ai, fallback) == classifyTransaction(ai, fallback)

\* the route's try/catch around classifyTransaction: default to expense
classifiedType(ai, fallback) ==
    LET classification == classifyTransaction(ai, fallback)
    IN IF classification = "TypeError" THEN "expense" ELSE classification

\* the cleaning of the extracted fields: value || default
cleaned(value, default) == IF value = Missing THEN default ELSE value

\* form validation, authentication, the ownership query and the status check
\* of one request
ProcessFileRequest(r, u, batchId, file) ==
    LET code == IF Falsy(batchId) \/ file.format = "" THEN 400
                ELSE IF file.type # "application/pdf" THEN 400
                ELSE IF file.size > MaxFileSize THEN 400
                ELSE IF u = NoUser THEN 401
                ELSE IF ~OwnedBatch(batchId, u) THEN 403
                ELSE IF NotProcessing(batches[batchId].status) THEN 400
                ELSE 0
    IN /\ IF code = 0
          THEN /\ req' = [req EXCEPT ![r] =
                            [kind |-> "process-file", pc |-> "profile", user |-> u,
                             batchId |-> batchId, filename |-> file.name,
                             cleanedData |-> NoData]]
               /\ resp' = NoResponse
          ELSE /\ resp' = ErrorResponse("process-file", code)
               /\ UNCHANGED req
       /\ UNCHANGED <<profiles, batches, extractions, usage_applied>>

\* a request of any client to the process-file route
ProcessFileStart(r) ==
    /\ Free(r)
    /\ Len(extractions) + Cardinality(InFlight("process-file")) < MaxExtractions
    /\ \E q \in ProcessFileRequests : ProcessFileRequest(r, q[1], q[2], q[3])
    /\ UNCHANGED <<widget, call>>

\* the second subscription check
ProcessFileReadProfile(r) ==
    /\ req[r].kind = "process-file" /\ req[r].pc = "profile"
    /\ \E profileError \in BOOLEAN :
          IF profileError \/ profiles[req[r].user].subscription_status # "active"
          THEN Reject(r, 403)
          ELSE Goto(r, "extract")
    /\ UNCHANGED <<profiles, batches, extractions, usage_applied>>
    /\ UNCHANGED <<widget, call>>

\* the extraction step with a failed extraction marking the batch 'failed'
ProcessFileExtract_FailsBatch(r) ==
    /\ req[r].kind = "process-file" /\ req[r].pc = "extract"
    /\ \/ /\ \E failure \in {"http error", "no content", "no json"} : Reject(r, 500)
          /\ batches' = [batches EXCEPT ![req[r].batchId].status = "failed"]
       \/ /\ \E answer \in ServiceAnswers :
                /\ req' = [req EXCEPT ![r].pc = "insert",
                                      ![r].cleanedData =
                                         [vendor |-> cleaned(answer.vendor, Unknown),
                                          amount |-> cleaned(answer.amount, Zero),
                                          transaction_type |->
                                             classifiedType(answer.ai, answer.fallback)]]
                /\ resp' = NoResponse
          /\ UNCHANGED batches
    /\ UNCHANGED <<profiles, extractions, usage_applied>>
    /\ UNCHANGED <<widget, call>>

\* the rate-limit delay, the extraction call, the parse of its answer and the
\* classification of the cleaned fields
ProcessFileExtract(r) ==
    /\ req[r].kind = "process-file" /\ req[r].pc = "extract"
    /\ \/ \E failure \in {"http error", "no content", "no json"} : Reject(r, 500)
       \/ \E answer \in ServiceAnswers :
             /\ req' = [req EXCEPT ![r].pc = "insert",
                                   ![r].cleanedData =
                                      [vendor |-> cleaned(answer.vendor, Unknown),
                                       amount |-> cleaned(answer.amount, Zero),
                                       transaction_type |->
                                          classifiedType(answer.ai, answer.fallback)]]
             /\ resp' = NoResponse
    /\ UNCHANGED <<profiles, batches, extractions, usage_applied>>
    /\ UNCHANGED <<widget, call>>

\* the insert of the extraction record
ProcessFileInsert(r) ==
    /\ req[r].kind = "process-file" /\ req[r].pc = "insert"
    /\ \E extractionError \in BOOLEAN :
          IF extractionError
          THEN Reject(r, 500) /\ UNCHANGED extractions
          ELSE /\ extractions' = Append(extractions,
                                        [batch_id |-> req[r].batchId,
                                         filename |-> req[r].filename,
                                         extracted_data |-> req[r].cleanedData])
               /\ resp' = Response("process-file", req[r].user, 200, req[r].batchId, << >>)
               /\ req' = [req EXCEPT ![r] = Idle]
    /\ UNCHANGED <<profiles, batches, usage_applied>>
    /\ UNCHANGED <<widget, call>>

(* ------------------ GET /api/batches/[batchId]/export-csv ---------------- *)
\* the rows of a batch, latest first
ExtractionsOf_LatestFirst(b) ==
    LET rows == SelectSeq(extractions, LAMBDA e : e.batch_id = b)
    IN [i \in 1..Len(rows) |-> rows[Len(rows) + 1 - i]]

\* the rows of a batch, in created_at order
ExtractionsOf(b) == SelectSeq(extractions, LAMBDA e : e.batch_id = b)

\* the skip rule reduced to the missing amount
Skipped_OnlyMissing(data) == data.amount = Missing

\* the skip rule of both generators: !amount, '0' or 'Unknown'
Skipped(data) == data.amount \in {Missing, Zero, Unknown}

\* parseFloat(String(amount).replace(/[$,\s]/g, ''))
ParsedAmount(data) == parseFloat(StripSymbols(data.amount))

\* data.transaction_type || 'expense': records stored before classification
\* existed have no type
transactionType(data) ==
    IF data.transaction_type = "" THEN "expense" ELSE data.transaction_type

\* the amount column of a 3-column row: the number as it is for income, its
\* negation for everything else
Amount3(data) ==
    <<NumberToString(IF transactionType(data) = "income" THEN ParsedAmount(data)
               ELSE Negate(ParsedAmount(data)))>>

\* the credit and debit columns of a 4-column row
Amount4(data) ==
    <<IF transactionType(data) = "income" THEN NumberToString(ParsedAmount(data)) ELSE << >>,
      IF transactionType(data) = "expense" THEN NumberToString(ParsedAmount(data)) ELSE << >>>>

RECURSIVE generateCSV(_, _)
\* generate3ColumnCSV / generate4ColumnCSV: one row of amount columns per
\* extraction that is not skipped and whose amount parses, in the order given
generateCSV(csv_format, exts) ==
    IF exts = << >> THEN << >>
    ELSE LET data == Head(exts).extracted_data
             rest == generateCSV(csv_format, Tail(exts))
         IN IF Skipped(data) \/ ParsedAmount(data) = NaN THEN rest
            ELSE <<IF csv_format = "3-column" THEN Amount3(data) ELSE Amount4(data)>>
                 \o rest

\* the status gate left out
NotCompleted_Skipped(status) == FALSE

\* the status gate of the export
NotCompleted(status) == status # "completed"

\* authentication and the ownership query
ExportStart(r) ==
    /\ Free(r)
    /\ \E q \in BatchRequests :
          LET u == q[1]
              batchId == q[2]
              code == IF Falsy(batchId) THEN 400
                      ELSE IF u = NoUser THEN 401
                      ELSE IF ~OwnedBatch(batchId, u) THEN 403
                      ELSE 0
          IN IF code = 0
             THEN /\ req' = [req EXCEPT ![r] =
                               [kind |-> "export", pc |-> "profile", user |-> u,
                                batchId |-> batchId,
                                status |-> batches[batchId].status,
                                csv_format |-> batches[batchId].csv_format]]
                  /\ resp' = NoResponse
             ELSE /\ resp' = ErrorResponse("export", code)
                  /\ UNCHANGED req
    /\ UNCHANGED <<profiles, batches, extractions, usage_applied>>
    /\ UNCHANGED <<widget, call>>

\* the subscription check, then the status check on the batch row read before
ExportReadProfile(r) ==
    /\ req[r].kind = "export" /\ req[r].pc = "profile"
    /\ \E profileError \in BOOLEAN :
          IF profileError THEN Reject(r, 404)
          ELSE IF profiles[req[r].user].subscription_status # "active"
          THEN Reject(r, 403)
          ELSE IF NotCompleted(req[r].status) THEN Reject(r, 400)
          ELSE Goto(r, "extractions")
    /\ UNCHANGED <<profiles, batches, extractions, usage_applied>>
    /\ UNCHANGED <<widget, call>>

\* the export without its check for a batch that has no extraction
ExportFetch_NoEmptyCheck(r) ==
    /\ req[r].kind = "export" /\ req[r].pc = "extractions"
    /\ \E extractionsError \in BOOLEAN :
          IF extractionsError THEN Reject(r, 500)
          ELSE /\ resp' = Response("export", req[r].user, 200, req[r].batchId,
                                   generateCSV(req[r].csv_format,
                                               ExtractionsOf(req[r].batchId)))
               /\ req' = [req EXCEPT ![r] = Idle]
    /\ UNCHANGED <<profiles, batches, extractions, usage_applied>>
    /\ UNCHANGED <<widget, call>>

\* the extractions query, the generation of the CSV and the response
ExportFetch(r) ==
    /\ req[r].kind = "export" /\ req[r].pc = "extractions"
    /\ \E extractionsError \in BOOLEAN :
          IF extractionsError THEN Reject(r, 500)
          ELSE IF ExtractionsOf(req[r].batchId) = << >> THEN Reject(r, 404)
          ELSE /\ resp' = Response("export", req[r].user, 200, req[r].batchId,
                                   generateCSV(req[r].csv_format,
                                               ExtractionsOf(req[r].batchId)))
               /\ req' = [req EXCEPT ![r] = Idle]
    /\ UNCHANGED <<profiles, batches, extractions, usage_applied>>
    /\ UNCHANGED <<widget, call>>

(* --------------------- PUT /api/extractions/[extractionId] -------------- *)
ExtractionIds == 1..Len(extractions)

\* the fields a client may edit
validFields == {"date", "vendor", "amount", "description"}

\* amount texts a client may send
AmountInputs ==
    {<<"$", "1", ",", "2", "3", "4", ".", "5", "0">>,
     <<"0">>,
     <<"-", "0">>,
     <<"0", "0", "0", ".", "5", "0", "0">>,
     <<"1", "2", "a", "b", "c">>,
     <<".", "5">>,
     <<"5", ".">>,
     <<".">>,
     <<"9", "9", "9", "9", "9", "9", "9", "9", "9", "9", "9", "9">>,
     <<"9", "9", "9", ",", "9", "9", "9", ",", "9", "9", "9", ",", "9", "9", "9", ".", "0", "0">>,
     <<"9", "9", "9", "9", "9", "9", "9", "9", "9", "9", "9", "9", ".", "5">>,
     <<"1", "0", "0", "0", "0", "0", "0", "0", "0", "0", "0", "0", "0">>,
     <<"-", "5">>,
     <<"x">>,
     << >>,
     <<" ">>,
     <<"$", " ", "7">>,
     <<"1", " ", "0", "0", "0">>,
     <<"+", "3">>,
     <<"0", ".", "1", "0">>,
     <<"0", "0">>,
     <<"1", ".", "2", ".", "3">>,
     <<"2", "5", ".", "9", "9">>}

\* the validation with text.replace(/[$,\s]/, ''), which removes the first
\* symbol only, returning the text so stripped
validateAmount_FirstSymbol(amountString) ==
    LET symbols == {i \in 1..Len(amountString) : amountString[i] \in {"$", ",", " "}}
        first == CHOOSE i \in symbols : \A j \in symbols : i <= j
        stripped == IF symbols = {} THEN amountString
                   ELSE SubSeq(amountString, 1, first - 1)
                        \o SubSeq(amountString, first + 1, Len(amountString))
        num == parseFloat(stripped)
    IN IF amountString = Missing \/ Blank(amountString) \/ num = NaN
          \/ Negative(num) \/ TooLarge(num)
       THEN [isValid |-> FALSE, cleanedValue |-> Missing]
       ELSE [isValid |-> TRUE, cleanedValue |-> stripped]

\* validateAmount: required, a number after the symbols are stripped, not
\* negative, not above 999999999999; the cleaned amount is the number printed
validateAmount(amountString) ==
    LET num == parseFloat(StripSymbols(amountString))
    IN IF amountString = Missing \/ Blank(amountString) \/ num = NaN
          \/ Negative(num) \/ TooLarge(num)
       THEN [isValid |-> FALSE, cleanedValue |-> Missing]
       ELSE [isValid |-> TRUE, cleanedValue |-> NumberToString(num)]

\* validateVendor: required and at most 100 characters
validateVendor(vendor) ==
    [isValid |-> ~(vendor = Missing \/ Blank(vendor) \/ Len(vendor) > MaxVendorLength),
     cleanedValue |-> Missing]

\* the validation of the value of an editable field of the model
validation(field, value) ==
    IF field = "amount" THEN validateAmount(value) ELSE validateVendor(value)

\* the batch status check left out
NotEditable_Skipped(status) == FALSE

\* the batch status check of the edit and of the listing
NotEditable(status) == status # "completed"

\* body check, authentication, the extraction query joined with its batch and
\* account, the ownership and status checks and the validation of the value
UpdateStart(r) ==
    /\ Free(r)
    /\ \E q \in UpdateRequests :
          LET u == q[1]
              extractionId == q[2]
              field == q[3][1]
              value == q[3][2]
              found == extractionId \in ExtractionIds
              batchId == IF found THEN extractions[extractionId].batch_id ELSE 0
              code == IF field = "" THEN 400
                      ELSE IF field \notin validFields THEN 400
                      ELSE IF u = NoUser THEN 401
                      ELSE IF ~found THEN 404
                      ELSE IF ~OwnedBatch(batchId, u) THEN 403
                      ELSE IF NotEditable(batches[batchId].status) THEN 400
                      ELSE IF ~validation(field, value).isValid THEN 400
                      ELSE 0
              cleanedValue == validation(field, value).cleanedValue
          IN IF code = 0
             THEN /\ req' = [req EXCEPT ![r] =
                               [kind |-> "update", pc |-> "write", user |-> u,
                                batchId |-> batchId, extractionId |-> extractionId,
                                field |-> field,
                                updatedData |->
                                   [extractions[extractionId].extracted_data
                                      EXCEPT ![field] = IF cleanedValue # Missing
                                                        THEN cleanedValue ELSE value]]]
                  /\ resp' = NoResponse
             ELSE /\ resp' = ErrorResponse("update", code)
                  /\ UNCHANGED req
    /\ UNCHANGED <<profiles, batches, extractions, usage_applied>>
    /\ UNCHANGED <<widget, call>>

\* the write of the whole extracted_data object and the success response
UpdateWrite(r) ==
    /\ req[r].kind = "update" /\ req[r].pc = "write"
    /\ \E updateError \in BOOLEAN :
          IF updateError
          THEN Reject(r, 500) /\ UNCHANGED extractions
          ELSE /\ extractions' = [extractions EXCEPT
                                    ![req[r].extractionId].extracted_data =
                                        req[r].updatedData]
               /\ resp' = Response("update", req[r].user, 200, req[r].batchId, << >>)
               /\ req' = [req EXCEPT ![r] = Idle]
    /\ UNCHANGED <<profiles, batches, usage_applied>>
    /\ UNCHANGED <<widget, call>>

(* ------------------ GET /api/batches/[batchId]/extractions --------------- *)
\* authentication, the ownership query and the status check
ListStart(r) ==
    /\ Free(r)
    /\ \E q \in BatchRequests :
          LET u == q[1]
              batchId == q[2]
              code == IF Falsy(batchId) THEN 400
                      ELSE IF u = NoUser THEN 401
                      ELSE IF ~OwnedBatch(batchId, u) THEN 403
                      ELSE IF NotEditable(batches[batchId].status) THEN 400
                      ELSE 0
          IN IF code = 0
             THEN /\ req' = [req EXCEPT ![r] =
                               [kind |-> "list", pc |-> "extractions", user |-> u,
                                batchId |-> batchId]]
                  /\ resp' = NoResponse
             ELSE /\ resp' = ErrorResponse("list", code)
                  /\ UNCHANGED req
    /\ UNCHANGED <<profiles, batches, extractions, usage_applied>>
    /\ UNCHANGED <<widget, call>>

\* the extractions query and the response
ListFetch(r) ==
    /\ req[r].kind = "list" /\ req[r].pc = "extractions"
    /\ \E extractionsError \in BOOLEAN :
          IF extractionsError THEN Reject(r, 500)
          ELSE /\ resp' = Response("list", req[r].user, 200, req[r].batchId,
                                   ExtractionsOf(req[r].batchId))
               /\ req' = [req EXCEPT ![r] = Idle]
    /\ UNCHANGED <<profiles, batches, extractions, usage_applied>>
    /\ UNCHANGED <<widget, call>>

(* ------------------- lib/transaction-classifier.ts ---------------------- *)
UpperCase == <<"A", "B", "C", "D", "E", "F", "G", "H", "I", "J", "K", "L", "M", "N", "O", "P", "Q", "R", "S", "T", "U", "V", "W", "X", "Y", "Z">>
LowerCase == <<"a", "b", "c", "d", "e", "f", "g", "h", "i", "j", "k", "l", "m", "n", "o", "p", "q", "r", "s", "t", "u", "v", "w", "x", "y", "z">>

\* String.prototype.toLowerCase
toLowerCase(text) ==
    [i \in 1..Len(text) |->
        IF \E k \in 1..Len(UpperCase) : UpperCase[k] = text[i]
        THEN LowerCase[CHOOSE k \in 1..Len(UpperCase) : UpperCase[k] = text[i]]
        ELSE text[i]]

\* String.prototype.includes
includes(text, keyword) ==
    \E i \in 0..(Len(text) - Len(keyword)) :
        SubSeq(text, i + 1, i + Len(keyword)) = keyword

incomeKeywords ==
    {<<"p", "a", "y", "m", "e", "n", "t", " ", "r", "e", "c", "e", "i", "v", "e", "d">>,
     <<"i", "n", "v", "o", "i", "c", "e">>,
     <<"d", "e", "p", "o", "s", "i", "t">>,
     <<"r", "e", "v", "e", "n", "u", "e">>,
     <<"s", "a", "l", "e">>,
     <<"i", "n", "c", "o", "m", "e">>}

expenseKeywords ==
    {<<"p", "u", "r", "c", "h", "a", "s", "e">>,
     <<"p", "a", "y", "m", "e", "n", "t", " ", "t", "o">>,
     <<"b", "i", "l", "l">>,
     <<"e", "x", "p", "e", "n", "s", "e">>,
     <<"c", "o", "s", "t">>,
     <<"f", "e", "e">>}

\* a classification result: the type and the confidence in tenths
ClassificationResult(type, confidence) ==
    [transaction_type |-> type, confidence |-> confidence]

\* the fallback rules with the expense keywords looked up first
fallbackClassification_ExpenseFirst(vendor, description, accountName) ==
    LET vendorLower == toLowerCase(vendor)
        descriptionLower == toLowerCase(description)
        accountLower == toLowerCase(accountName)
    IN IF \/ includes(vendorLower, accountLower)
          \/ includes(accountLower, vendorLower)
          \/ vendorLower = accountLower
       THEN ClassificationResult("income", 7)
       ELSE IF \E keyword \in expenseKeywords :
                  includes(descriptionLower, keyword) \/ includes(vendorLower, keyword)
       THEN ClassificationResult("expense", 6)
       ELSE IF \E keyword \in incomeKeywords :
                  includes(descriptionLower, keyword) \/ includes(vendorLower, keyword)
       THEN ClassificationResult("income", 6)
       ELSE ClassificationResult("expense", 3)

\* fallbackClassification: vendor and account name containing one another,
\* then the income keywords, then the expense keywords, then the default
fallbackClassification(vendor, description, accountName) ==
    LET vendorLower == toLowerCase(vendor)
        descriptionLower == toLowerCase(description)
        accountLower == toLowerCase(accountName)
        vendorMatchesAccount == \/ includes(vendorLower, accountLower)
                                \/ includes(accountLower, vendorLower)
                                \/ vendorLower = accountLower
        hasIncomeKeywords ==
            \E keyword \in incomeKeywords :
                includes(descriptionLower, keyword) \/ includes(vendorLower, keyword)
        hasExpenseKeywords ==
            \E keyword \in expenseKeywords :
                includes(descriptionLower, keyword) \/ includes(vendorLower, keyword)
    IN IF vendorMatchesAccount THEN ClassificationResult("income", 7)
       ELSE IF hasIncomeKeywords THEN ClassificationResult("income", 6)
       ELSE IF hasExpenseKeywords THEN ClassificationResult("expense", 6)
       ELSE ClassificationResult("expense", 3)

\* vendors, descriptions and account names the fallback is called with
FallbackVendors ==
    {<<"A", "c", "m", "e">>,
     <<"A", "C", "M", "E", " ", "L", "t", "d">>,
     <<"S", "a", "l", "e", "s", " ", "C", "o">>,
     <<"B", "i", "l", "l", "i", "n", "g">>,
     <<"S", "h", "o", "p">>,
     << >>}
FallbackDescriptions ==
    {<< >>,
     <<"I", "n", "v", "o", "i", "c", "e", " ", "1", "2">>,
     <<"i", "n", "v", "o", "i", "c", "e", " ", "f", "e", "e">>,
     <<"L", "a", "t", "e", " ", "F", "E", "E">>,
     <<"l", "u", "n", "c", "h">>}
FallbackAccountNames ==
    {<<"a", "c", "m", "e">>,
     <<"J", "o", "e">>,
     << >>}

FallbackCalls ==
    {[fn |-> "fallbackClassification", args |-> <<v, d, a>>, returned |-> FALSE,
      result |-> << >>] :
        v \in FallbackVendors, d \in FallbackDescriptions, a \in FallbackAccountNames}

\* the call returns
FallbackReturn ==
    /\ call.fn = "fallbackClassification" /\ ~call.returned
    /\ call' = [call EXCEPT !.returned = TRUE,
                            !.result = fallbackClassification(call.args[1], call.args[2],
                                                              call.args[3])]
    /\ UNCHANGED <<profiles, batches, extractions, req, resp, usage_applied, widget>>

\* what the classification service may answer: a failure of the request, a
\* message without content, a content without a JSON object or with one that
\* does not parse, or a JSON object with the two fields of interest; a
\* confidence is a JSON value, a number being given in tenths
AIConfidences ==
    {[type |-> "undefined", value |-> 0], [type |-> "string", value |-> 9],
     [type |-> "number", value |-> -1], [type |-> "number", value |-> 0],
     [type |-> "number", value |-> 9], [type |-> "number", value |-> 10],
     [type |-> "number", value |-> 11]}
AIResponses ==
    {[kind |-> k, transaction_type |-> "", confidence |-> [type |-> "undefined", value |-> 0]] :
        k \in {"http error", "no content", "no json", "bad json"}}
    \cup {[kind |-> "json", transaction_type |-> t, confidence |-> c] :
             t \in {"income", "expense", "Income", "transfer", ""}, c \in AIConfidences}

\* typeof confidence !== 'number' || confidence < 0 || confidence > 1
InvalidConfidence(confidence) ==
    confidence.type # "number" \/ confidence.value < 0 \/ confidence.value > 10

\* the classification with the type of the answer left unchecked
classifyTransactionResult_TypeUnchecked(response, vendor, description, accountName) ==
    IF response.kind = "json"
    THEN ClassificationResult(response.transaction_type,
                              IF InvalidConfidence(response.confidence) THEN 5
                              ELSE response.confidence.value)
    ELSE fallbackClassification(vendor, description, accountName)

\* classifyTransaction, given the answer of the service: the validated
\* answer, or the fallback when the request or the parse fails or the type
\* is not one of the two
classifyTransactionResult(response, vendor, description, accountName) ==
    IF response.kind = "json" /\ response.transaction_type \in {"income", "expense"}
    THEN ClassificationResult(response.transaction_type,
                              IF InvalidConfidence(response.confidence) THEN 5
                              ELSE response.confidence.value)
    ELSE fallbackClassification(vendor, description, accountName)

\* transactions the classifier is called with: <<vendor, description, accountName>>
ClassifiedTransactions ==
    {<<<<"A", "c", "m", "e">>, <<"l", "u", "n", "c", "h">>, <<"a", "c", "m", "e">>>>,
     <<<<"S", "h", "o", "p">>, <<"I", "n", "v", "o", "i", "c", "e", " ", "1", "2">>, <<"J", "o", "e">>>>,
     <<<<"S", "h", "o", "p">>, <<"l", "u", "n", "c", "h">>, <<"J", "o", "e">>>>}

ClassifyCalls ==
    {[fn |-> "classifyTransaction", args |-> <<response, t[1], t[2], t[3]>>,
      returned |-> FALSE, result |-> << >>] :
        response \in AIResponses, t \in ClassifiedTransactions}

\* the call returns
ClassifyReturn ==
    /\ call.fn = "classifyTransaction" /\ ~call.returned
    /\ call' = [call EXCEPT !.returned = TRUE,
                            !.result = classifyTransactionResult(call.args[1], call.args[2],
                                                                 call.args[3], call.args[4])]
    /\ UNCHANGED <<profiles, batches, extractions, req, resp, usage_applied, widget>>

(* ------------- validateDate (PUT /api/extractions/[extractionId]) ------- *)
\* /^(\d{2})\/(\d{2})\/(\d{4})$/.test(dateString)
dateRegex(dateString) ==
    /\ Len(dateString) = 10
    /\ \A i \in 1..10 : IF i \in {3, 6} THEN dateString[i] = "/"
                         ELSE dateString[i] \in Digits

\* the value of a decimal digit
DigitValue(c) ==
    CHOOSE n \in 0..9 : <<"0", "1", "2", "3", "4", "5", "6", "7", "8", "9">>[n + 1] = c

RECURSIVE parseInt(_)
\* parseInt of a text of decimal digits
parseInt(digits) ==
    IF digits = << >> THEN 0
    ELSE 10 * parseInt(SubSeq(digits, 1, Len(digits) - 1)) + DigitValue(digits[Len(digits)])

\* the days of a month of the Gregorian calendar
DaysInMonth(year, month) ==
    IF month = 2
    THEN IF year % 4 = 0 /\ (year % 100 # 0 \/ year % 400 = 0) THEN 29 ELSE 28
    ELSE IF month \in {4, 6, 9, 11} THEN 30 ELSE 31

\* new Date(year, monthIndex, day) for a month index in 0..11 and a day in
\* 1..31: a day past the end of the month rolls over into the next month
Date(year, monthIndex, day) ==
    IF day <= DaysInMonth(year, monthIndex + 1)
    THEN [getFullYear |-> year, getMonth |-> monthIndex, getDate |-> day]
    ELSE [getFullYear |-> year, getMonth |-> monthIndex + 1,
          getDate |-> day - DaysInMonth(year, monthIndex + 1)]

\* the validation without the comparison with the reconstructed date
validateDate_RangesOnly(dateString, csvFormat) ==
    IF dateString = Missing \/ Blank(dateString) \/ ~dateRegex(dateString) THEN FALSE
    ELSE LET dayOrMonth == parseInt(SubSeq(dateString, 1, 2))
             monthOrDay == parseInt(SubSeq(dateString, 4, 5))
             yearNum == parseInt(SubSeq(dateString, 7, 10))
             month == IF csvFormat = "4-column" THEN monthOrDay ELSE dayOrMonth
             day == IF csvFormat = "4-column" THEN dayOrMonth ELSE monthOrDay
         IN ~(month < 1 \/ month > 12 \/ day < 1 \/ day > 31
              \/ yearNum < 1900 \/ yearNum > 2100)

\* validateDate: isValid
validateDate(dateString, csvFormat) ==
    IF dateString = Missing \/ Blank(dateString) THEN FALSE
    ELSE IF ~dateRegex(dateString) THEN FALSE
    ELSE LET dayOrMonth == parseInt(SubSeq(dateString, 1, 2))
             monthOrDay == parseInt(SubSeq(dateString, 4, 5))
             yearNum == parseInt(SubSeq(dateString, 7, 10))
             month == IF csvFormat = "4-column" THEN monthOrDay ELSE dayOrMonth
             day == IF csvFormat = "4-column" THEN dayOrMonth ELSE monthOrDay
         IN IF month < 1 \/ month > 12 THEN FALSE
            ELSE IF day < 1 \/ day > 31 THEN FALSE
            ELSE IF yearNum < 1900 \/ yearNum > 2100 THEN FALSE
            ELSE LET date == Date(yearNum, month - 1, day)
                 IN ~(\/ date.getFullYear # yearNum
                      \/ date.getMonth # month - 1
                      \/ date.getDate # day)

\* date texts a client may send: two-digit groups around the ends of the
\* ranges and of the months, years around the range and leap and common
\* years, and texts of another form
TwoDigitGroups ==
    {<<"0", "0">>, <<"0", "1">>, <<"0", "2">>, <<"0", "4">>, <<"1", "2">>, <<"1", "3">>, <<"2", "8">>, <<"2", "9">>, <<"3", "0">>, <<"3", "1">>, <<"3", "2">>}
FourDigitGroups ==
    {<<"1", "8", "9", "9">>, <<"1", "9", "0", "0">>, <<"2", "0", "0", "0">>, <<"2", "0", "2", "3">>, <<"2", "0", "2", "4">>, <<"2", "1", "0", "0">>, <<"2", "1", "0", "1">>}
DateInputs ==
    {a \o <<"/">> \o b \o <<"/">> \o y :
        a \in TwoDigitGroups, b \in TwoDigitGroups, y \in FourDigitGroups}
    \cup {<< >>,
           <<" ", " ">>,
           <<"1", "/", "1", "/", "2", "0", "2", "4">>,
           <<"0", "1", "-", "0", "1", "-", "2", "0", "2", "4">>,
           <<"0", "1", "/", "0", "1", "/", "2", "0", "2", "4", "5">>,
           <<"a", "b", "/", "c", "d", "/", "e", "f", "g", "h">>,
           <<" ", "0", "1", "/", "0", "1", "/", "2", "0", "2", "4">>}

DateCalls ==
    {[fn |-> "validateDate", args |-> <<d, f>>, returned |-> FALSE, result |-> << >>] :
        d \in DateInputs, f \in CsvFormats}

\* the call returns
DateReturn ==
    /\ call.fn = "validateDate" /\ ~call.returned
    /\ call' = [call EXCEPT !.returned = TRUE,
                            !.result = [isValid |-> validateDate(call.args[1], call.args[2])]]
    /\ UNCHANGED <<profiles, batches, extractions, req, resp, usage_applied, widget>>

(* --------------- generateFilename (export-csv route) -------------------- *)
\* the characters of [a-zA-Z0-9]
AlphaNumeric ==
    {UpperCase[i] : i \in 1..Len(UpperCase)} \cup {LowerCase[i] : i \in 1..Len(LowerCase)}
    \cup Digits

\* text.replace(/[^a-zA-Z0-9]/g, '_')
ReplaceOthers(text) ==
    [i \in 1..Len(text) |-> IF text[i] \in AlphaNumeric THEN text[i] ELSE "_"]

RECURSIVE CollapseUnderscores(_)
\* text.replace(/_+/g, '_')
CollapseUnderscores(text) ==
    IF Len(text) < 2 THEN text
    ELSE IF text[1] = "_" /\ text[2] = "_" THEN CollapseUnderscores(Tail(text))
    ELSE <<Head(text)>> \o CollapseUnderscores(Tail(text))

\* text.replace(/^_|_$/g, ''): one underscore off the start, then one off the end
TrimUnderscore(text) ==
    LET rest == IF text # << >> /\ Head(text) = "_" THEN Tail(text) ELSE text
    IN IF rest # << >> /\ rest[Len(rest)] = "_" THEN SubSeq(rest, 1, Len(rest) - 1)
       ELSE rest

\* the sanitization without the collapse of repeated underscores
sanitizedAccountName_NoCollapse(accountName) ==
    TrimUnderscore(ReplaceOthers(accountName))

\* generateFilename: sanitizedAccountName
sanitizedAccountName(accountName) ==
    TrimUnderscore(CollapseUnderscores(ReplaceOthers(accountName)))

\* account names of the accounts table
AccountNames ==
    {<<"J", "o", "e", "'", "s", " ", "C", "a", "f", "é", " ", "&", " ", "C", "o", ".">>,
     <<"A", "c", "m", "e">>,
     <<"A", "c", "m", "e", " ", "C", "o", "r", "p">>,
     <<"_", "a", "_">>,
     <<"a", "_", "_", "b">>,
     <<"&", "&", "&">>,
     << >>,
     <<" ", "x", " ">>,
     <<"A", "-", "1">>,
     <<"_", "_">>,
     <<"a", "_", "b">>,
     <<"-", "-", "a", "-", "-", "b", "-", "-">>,
     <<"9", " ", "t", "o", " ", "5">>,
     <<"_">>}

FilenameCalls ==
    {[fn |-> "generateFilename", args |-> <<a>>, returned |-> FALSE, result |-> << >>] :
        a \in AccountNames}

\* the call returns
FilenameReturn ==
    /\ call.fn = "generateFilename" /\ ~call.returned
    /\ call' = [call EXCEPT !.returned = TRUE,
                            !.result = sanitizedAccountName(call.args[1])]
    /\ UNCHANGED <<profiles, batches, extractions, req, resp, usage_applied, widget>>

(* ------------------- batch-processing widget: processBatch -------------- *)
\* the signed-in user of the widget
WidgetUser == "u1"

\* the i-th selected file: a PDF that passed the widget's own checks
WidgetFile(i) ==
    [ValidForm EXCEPT !.name = IF i = 1 THEN "a.pdf" ELSE IF i = 2 THEN "b.pdf"
                               ELSE "c.pdf"]

\* the loop sending the next file without awaiting the response of the last
WidgetSubmitFile_NoAwait(r) ==
    /\ widget.pc \in {"loop", "file"} /\ widget.i < widget.files
    /\ Free(r)
    /\ ProcessFileRequest(r, WidgetUser, widget.batchId, WidgetFile(widget.i + 1))
    /\ widget' = [widget EXCEPT !.pc = "file", !.i = @ + 1]
    /\ UNCHANGED call

\* the body of the loop up to its fetch: the request for the next file
WidgetSubmitFile(r) ==
    /\ widget.pc = "loop"
    /\ Free(r)
    /\ ProcessFileRequest(r, WidgetUser, widget.batchId, WidgetFile(widget.i + 1))
    /\ widget' = [widget EXCEPT !.pc = "file", !.i = @ + 1]
    /\ UNCHANGED call

\* the rest of the loop body: a response that is not ok is thrown, which
\* leaves the loop for the catch block; otherwise the loop goes on to the
\* next file or, after the last one, to the completion
WidgetFileResponse ==
    /\ widget.pc = "file"
    /\ resp.kind = "process-file"
    /\ widget' = [widget EXCEPT !.pc = IF resp.status # 200 THEN "failed"
                                       ELSE IF widget.i < widget.files THEN "loop"
                                       ELSE "complete"]
    /\ resp' = NoResponse
    /\ UNCHANGED <<profiles, batches, extractions, req, usage_applied>>
    /\ UNCHANGED call

\* the completion request after the loop
WidgetComplete(r) ==
    /\ widget.pc = "complete"
    /\ CompleteRequest(r, WidgetUser, widget.batchId)
    /\ widget' = [widget EXCEPT !.pc = "completing"]
    /\ UNCHANGED call

\* the response of the completion: thrown when not ok, else the run is done
WidgetCompleteResponse ==
    /\ widget.pc = "completing"
    /\ resp.kind = "complete"
    /\ widget' = [widget EXCEPT !.pc = IF resp.status # 200 THEN "failed" ELSE "done"]
    /\ resp' = NoResponse
    /\ UNCHANGED <<profiles, batches, extractions, req, usage_applied>>
    /\ UNCHANGED call

(* --------------------------- specifications ----------------------------- *)
Next ==
    \E r \in Reqs :
        \/ CreateStart(r)
        \/ CreateReadProfile(r)
        \/ CreateCheckLimit(r)
        \/ CreateInsert(r)
        \/ \E q \in BatchRequests : CompleteStart(r, q[1], q[2])
        \/ CompleteReadExtractions(r)
        \/ CompleteUpdateStatus(r)
        \/ CompleteUpdateUsage(r)

\* admission and completion of batches
Spec == Init /\ [][Next]_vars

\* two batches admitted earlier: one of u1, just created, and one of u2,
\* completed in an earlier month, before the subscription of u2 lapsed
IngestBatches ==
    <<[account_id |-> "a1", file_count |-> 1, total_pages |-> 5,
       csv_format |-> "3-column", status |-> "processing", processed_at |-> 0],
      [account_id |-> "a2", file_count |-> 1, total_pages |-> 5,
       csv_format |-> "4-column", status |-> "completed", processed_at |-> 1]>>

InitIngest ==
    /\ profiles \in InitialProfiles
    /\ batches = IngestBatches
    /\ extractions = << >>
    /\ req = [r \in Reqs |-> Idle]
    /\ resp = NoResponse
    /\ usage_applied = [b \in 1..MaxBatches |-> 0]
    /\ widget = WidgetIdle
    /\ call = NoCall

NextIngest ==
    \E r \in Reqs :
        \/ ProcessFileStart(r)
        \/ ProcessFileReadProfile(r)
        \/ ProcessFileExtract(r)
        \/ ProcessFileInsert(r)
        \/ \E q \in BatchRequests : CompleteStart(r, q[1], q[2])
        \/ CompleteReadExtractions(r)
        \/ CompleteUpdateStatus(r)
        \/ CompleteUpdateUsage(r)
        \/ ExportStart(r)
        \/ ExportReadProfile(r)
        \/ ExportFetch(r)

\* ingestion, completion and export of admitted batches
SpecIngest == InitIngest /\ [][NextIngest]_vars

\* the same two batches, the one of u1 created in the 4-column format
ExportBatches == [IngestBatches EXCEPT ![1].csv_format = "4-column"]

InitExport ==
    /\ profiles \in InitialProfiles
    /\ batches = ExportBatches
    /\ extractions = << >>
    /\ req = [r \in Reqs |-> Idle]
    /\ resp = NoResponse
    /\ usage_applied = [b \in 1..MaxBatches |-> 0]
    /\ widget = WidgetIdle
    /\ call = NoCall

\* ingestion, completion and export of a 4-column batch
SpecExport == InitExport /\ [][NextIngest]_vars

\* the extraction of the batch completed earlier, as its ingestion stored it
ReviewExtraction ==
    [batch_id |-> 2, filename |-> "a.pdf",
     extracted_data |-> [vendor |-> AcmeCorp, amount |-> <<"2", "5", ".", "9", "9">>,
                         transaction_type |-> "expense"]]

\* the earlier batch is completed, or was left in 'failed' by an operator
InitReview ==
    /\ profiles \in InitialProfiles
    /\ batches \in {IngestBatches, [IngestBatches EXCEPT ![2].status = "failed"]}
    /\ extractions = <<ReviewExtraction>>
    /\ req = [r \in Reqs |-> Idle]
    /\ resp = NoResponse
    /\ usage_applied = [b \in 1..MaxBatches |-> 0]
    /\ widget = WidgetIdle
    /\ call = NoCall

\* the slots that serve every route; the other one serves edits only, so
\* that an edit races with every other request
GeneralSlots == {1}

NextReview ==
    \/ \E r \in Reqs :
          \/ UpdateStart(r)
          \/ UpdateWrite(r)
    \/ \E r \in GeneralSlots :
          \/ ProcessFileStart(r)
          \/ ProcessFileReadProfile(r)
          \/ ProcessFileExtract(r)
          \/ ProcessFileInsert(r)
          \/ \E q \in BatchRequests : CompleteStart(r, q[1], q[2])
          \/ CompleteReadExtractions(r)
          \/ CompleteUpdateStatus(r)
          \/ CompleteUpdateUsage(r)
          \/ ExportStart(r)
          \/ ExportReadProfile(r)
          \/ ExportFetch(r)
          \/ ListStart(r)
          \/ ListFetch(r)

\* review of ingested batches: listing, field edits and export, next to the
\* ingestion and completion of the batch still in progress
SpecReview == InitReview /\ [][NextReview]_vars

\* the widget has created its batch for the files selected and enters the
\* loop over them
InitWidget ==
    /\ profiles \in InitialProfiles
    /\ \E files \in 1..MaxExtractions :
          /\ batches = <<[account_id |-> "a1", file_count |-> files,
                          total_pages |-> files, csv_format |-> "3-column",
                          status |-> "processing", processed_at |-> 0]>>
          /\ widget = [pc |-> "loop", files |-> files, i |-> 0, batchId |-> 1]
    /\ call = NoCall
    /\ extractions = << >>
    /\ req = [r \in Reqs |-> Idle]
    /\ resp = NoResponse
    /\ usage_applied = [b \in 1..MaxBatches |-> 0]

NextWidget ==
    \/ \E r \in Reqs :
          \/ WidgetSubmitFile(r)
          \/ ProcessFileReadProfile(r)
          \/ ProcessFileExtract(r)
          \/ ProcessFileInsert(r)
          \/ WidgetComplete(r)
          \/ CompleteReadExtractions(r)
          \/ CompleteUpdateStatus(r)
          \/ CompleteUpdateUsage(r)
    \/ WidgetFileResponse
    \/ WidgetCompleteResponse

\* one run of processBatch over the batch it created, served by the
\* process-file and completion handlers
SpecWidget == InitWidget /\ [][NextWidget]_vars

\* the widget has created its batch, in either format, for the files selected
InitSubmit ==
    /\ profiles \in InitialProfiles
    /\ \E files \in 1..MaxExtractions, format \in CsvFormats :
          /\ batches = <<[account_id |-> "a1", file_count |-> files,
                          total_pages |-> files, csv_format |-> format,
                          status |-> "processing", processed_at |-> 0]>>
          /\ widget = [pc |-> "loop", files |-> files, i |-> 0, batchId |-> 1]
    /\ call = NoCall
    /\ extractions = << >>
    /\ req = [r \in Reqs |-> Idle]
    /\ resp = NoResponse
    /\ usage_applied = [b \in 1..MaxBatches |-> 0]

\* once the run is over the batch is downloaded
NextSubmit ==
    \/ NextWidget
    \/ /\ widget.pc = "done"
       /\ \E r \in Reqs :
             \/ ExportStart(r)
             \/ ExportReadProfile(r)
             \/ ExportFetch(r)

\* one run of processBatch followed by exports of its batch
SpecSubmit == InitSubmit /\ [][NextSubmit]_vars

\* calls of the functions of the code on the inputs above
InitCalls ==
    /\ profiles \in InitialProfiles
    /\ batches = << >>
    /\ extractions = << >>
    /\ req = [r \in Reqs |-> Idle]
    /\ resp = NoResponse
    /\ usage_applied = [b \in 1..MaxBatches |-> 0]
    /\ widget = WidgetIdle
    /\ call \in FallbackCalls \cup ClassifyCalls \cup DateCalls \cup FilenameCalls

NextCalls ==
    \/ FallbackReturn
    \/ ClassifyReturn
    \/ DateReturn
    \/ FilenameReturn

SpecCalls == InitCalls /\ [][NextCalls]_vars

(* ------------------------------- claims --------------------------------- *)
\* C1: for any batch, under every interleaving of completion requests, the
\* batch's total_pages is added to the owner's monthly usage at most once.
C1_UsageAppliedAtMostOnce ==
    \A b \in DOMAIN usage_applied : usage_applied[b] <= 1

\* C2: a completion request for a batch whose status, as the request reads
\* it, is not 'processing' is rejected with an error and leaves the batch
\* rows (status, processed_at) and the usage counters unchanged.
C2_NotProcessingRejected ==
    [][\A r \in Reqs, q \in BatchRequests :
          (/\ CompleteStart(r, q[1], q[2])
           /\ q[2] \in BatchIds
           /\ batches[q[2]].status # "processing")
          => /\ resp'.kind = "complete" /\ resp'.status \in {400, 401, 403}
             /\ req' = req
             /\ UNCHANGED <<batches, profiles, usage_applied>>]_vars

\* a completion request against a completed batch has just been refused, in a
\* store that also holds a failed batch
C2_Witness ==
    /\ resp.kind = "complete" /\ resp.status = 400
    /\ resp.batchId \in BatchIds
    /\ batches[resp.batchId].status = "completed"
    /\ \E b \in BatchIds : batches[b].status = "failed"

\* C3: whenever a completion request has reported success for a batch, the
\* batch is 'completed' and its total_pages has been added to the usage.
C3_SuccessMeansUsageApplied ==
    (resp.kind = "complete" /\ resp.status = 200)
    => /\ batches[resp.batchId].status = "completed"
       /\ usage_applied[resp.batchId] >= 1

\* C4: monthly_usage never exceeds 1500 under any interleaving of creations
\* and completions; stated for the runs in which no batch is accounted twice,
\* so that two admitted batches alone have to overshoot the cap.
C4_UsageWithinCap ==
    (\A b \in DOMAIN usage_applied : usage_applied[b] <= 1)
    => \A u \in Users : profiles[u].monthly_usage <= UsageCap

\* C5: with the other admission conditions satisfied and the store answering,
\* the usage check lets a creation through if and only if
\* monthly_usage + total_pages <= 1500 when it runs, which is also the
\* widget's verdict on the same numbers.
C5_AdmittedIffWithinCap ==
    [][\A r \in Reqs :
          (/\ req[r].kind = "create" /\ req[r].pc = "limit"
           /\ req'[r] # req[r]
           /\ resp'.status # 500)
          => LET usage == profiles[req[r].user].monthly_usage
                 within == usage + req[r].totalPages <= UsageCap
             IN /\ within <=> (req'[r].kind = "create" /\ req'[r].pc = "insert")
                /\ ~within <=> (resp'.kind = "create" /\ resp'.status = 400)
                /\ within <=> ~wouldExceedLimit(usage, req[r].totalPages)]_vars

\* a creation admitted exactly at the cap (1495 + 5), waiting for its insert
C5_Witness ==
    \E r \in Reqs :
        /\ req[r].kind = "create" /\ req[r].pc = "insert"
        /\ req[r].totalPages > 0
        /\ profiles[req[r].user].monthly_usage + req[r].totalPages = UsageCap

\* C6: whenever a completion request succeeds, the number of extraction
\* records of the batch equals the batch's file_count.
C6_CompletedOnlyWhenAllIngested ==
    (resp.kind = "complete" /\ resp.status = 200)
    => Len(ExtractionsOf(resp.batchId)) = batches[resp.batchId].file_count

\* C7: every batch record that exists has 1 <= file_count <= 10.
C7_FileCountInRange ==
    \A b \in BatchIds : batches[b].file_count \in 1..MaxFilesPerBatch

\* C8: every batch record has total_pages > 0, and no step decreases a
\* user's monthly usage.
C8_PagesPositiveUsageMonotone ==
    [][/\ \A b \in 1..Len(batches') : batches'[b].total_pages > 0
       /\ \A u \in Users : profiles'[u].monthly_usage >= profiles[u].monthly_usage]_vars

\* C9: a batch record is created, in status 'processing', only with a
\* csv_format of '3-column' or '4-column', for an account of the requester,
\* whose subscription is active; a rejected creation creates no batch record
\* and changes no usage counter.
C9_AdmissionGates ==
    [][/\ Len(batches') > Len(batches)
          => LET n == batches'[Len(batches')]
             IN /\ resp'.kind = "create" /\ resp'.status = 200
                /\ n.status = "processing"
                /\ n.csv_format \in CsvFormats
                /\ AccountOwner[n.account_id] = resp'.user
                /\ profiles[resp'.user].subscription_status = "active"
       /\ (resp'.kind = "create" /\ resp'.status # 200)
          => UNCHANGED <<batches, profiles>>]_vars

\* a creation has just been answered with the id of a new batch
C9_Witness ==
    /\ resp.kind = "create" /\ resp.status = 200
    /\ resp.batchId = Len(batches)
    /\ batches[resp.batchId].status = "processing"

\* C10: the export returns a CSV body only if the caller owns the batch's
\* account, the caller's subscription is active and the batch is 'completed';
\* every other answer is an error without CSV content.
C10_ExportGated ==
    resp.kind = "export"
    => IF resp.status = 200
       THEN /\ OwnedBatch(resp.batchId, resp.user)
            /\ profiles[resp.user].subscription_status = "active"
            /\ batches[resp.batchId].status = "completed"
       ELSE resp.status >= 400 /\ resp.body = << >>

\* an export has just returned rows
C10_Witness ==
    resp.kind = "export" /\ resp.status = 200 /\ resp.body # << >>

\* C11: an extraction record changes only by the write of a field update
\* that was answered with success, whose batch is 'completed' and whose new
\* value is what validation returned for a value it accepts; an update
\* answered with an error leaves every extraction record as it was.
C11_EditsGated ==
    [][/\ \A e \in ExtractionIds :
             extractions'[e] # extractions[e]
             => /\ resp'.kind = "update" /\ resp'.status = 200
                /\ batches[extractions[e].batch_id].status = "completed"
                /\ extractions'[e].batch_id = extractions[e].batch_id
                /\ \E r \in Reqs, body \in UpdateBodies :
                      /\ req[r].kind = "update" /\ req[r].extractionId = e
                      /\ body[1] \in validFields
                      /\ validation(body[1], body[2]).isValid
                      /\ extractions'[e].extracted_data = req[r].updatedData
                      /\ req[r].updatedData[body[1]] =
                            IF validation(body[1], body[2]).cleanedValue # Missing
                            THEN validation(body[1], body[2]).cleanedValue
                            ELSE body[2]
       /\ (resp'.kind = "update" /\ resp'.status # 200) => UNCHANGED extractions]_vars

\* an amount edit has just been applied: the record holds the cleaned amount
C11_Witness ==
    /\ resp.kind = "update" /\ resp.status = 200
    /\ \E e \in ExtractionIds :
          /\ extractions[e].batch_id = resp.batchId
          /\ extractions[e].extracted_data.amount = <<"1", "2", "3", "4", ".", "5">>

\* C12: on the completion, process-file, listing, export and field-update
\* routes, a handler runs past its ownership query only for the owner of the
\* batch's account, a success is answered only to the owner, and every change
\* of the store is made by a handler of the owner and confined to that batch
\* and that owner's profile: a request against a batch of another user's
\* account neither succeeds nor changes any state.
C12_OwnershipIsolation ==
    [][LET Owns(u, b) == b \in BatchIds /\ AccountOwner[batches[b].account_id] = u
           BatchRoutes == {"complete", "process-file", "list", "export", "update"}
       IN /\ \A r \in Reqs :
                (req'[r] # req[r] /\ req'[r].kind \in BatchRoutes)
                => Owns(req'[r].user, req'[r].batchId)
          /\ (resp'.kind \in BatchRoutes /\ resp'.status = 200)
             => Owns(resp'.user, resp'.batchId)
          /\ <<batches, extractions, profiles>>' # <<batches, extractions, profiles>>
             => \E r \in Reqs :
                   /\ req[r].kind \in BatchRoutes /\ req'[r] # req[r]
                   /\ Owns(req[r].user, req[r].batchId)
                   /\ \A b \in BatchIds \ {req[r].batchId} : batches'[b] = batches[b]
                   /\ \A e \in ExtractionIds :
                         extractions[e].batch_id # req[r].batchId
                         => extractions'[e] = extractions[e]
                   /\ \A e \in 1..Len(extractions') \ ExtractionIds :
                         extractions'[e].batch_id = req[r].batchId
                   /\ \A u \in Users \ {req[r].user} : profiles'[u] = profiles[u]]_vars

\* a field update by a user who does not own the extraction's batch has just
\* been refused
C12_Witness ==
    /\ resp.kind = "update" /\ resp.status = 403
    /\ \E e \in ExtractionIds : batches[extractions[e].batch_id].status = "completed"

\* C13: a run of processBatch that ends in failure has submitted every file
\* of the batch before: the failure of one file does not keep the remaining
\* files from being submitted.
C13_RemainingFilesSubmitted ==
    widget.pc = "failed" => widget.i = widget.files

\* C14: the status of a batch record changes only from 'processing' to
\* 'completed'; in particular a process-file request that fails leaves every
\* batch as it was, and no step sets 'failed' or takes a batch back to
\* 'processing'.
C14_StatusOnlyForward ==
    [][/\ \A b \in BatchIds :
             batches'[b].status # batches[b].status
             => batches[b].status = "processing" /\ batches'[b].status = "completed"
       /\ (resp'.kind = "process-file" /\ resp'.status # 200) => UNCHANGED batches]_vars

\* the extraction of a file has just failed and its batch is still in
\* 'processing'
C14_Witness ==
    /\ resp.kind = "process-file" /\ resp.status = 500
    /\ \A b \in BatchIds : batches[b] = IngestBatches[b]

\* C15: once a batch is 'completed' its extraction records stay the same
\* records: no step adds a record to it or removes one from it, whatever the
\* interleaving of process-file and completion requests.
C15_ExtractionsFrozenOnceCompleted ==
    [][\A b \in BatchIds :
          batches[b].status = "completed"
          => SelectSeq(extractions', LAMBDA e : e.batch_id = b) = ExtractionsOf(b)]_vars

\* C16: every batch has at most file_count extraction records.
C16_ExtractionsWithinFileCount ==
    \A b \in BatchIds : Len(ExtractionsOf(b)) <= batches[b].file_count

\* C17: every stored extraction, and every record about to be inserted, has
\* transaction_type 'income' or 'expense', after any ingestions and field
\* edits; and for every answer of the classification service and every
\* outcome of the fallback the process-file route obtains one of the two
\* types, so that a classification failure never fails the request.
C17_TransactionTypeAlwaysSet ==
    /\ \A e \in ExtractionIds :
          extractions[e].extracted_data.transaction_type \in TransactionTypes
    /\ \A r \in Reqs :
          (req[r].kind = "process-file" /\ req[r].pc = "insert")
          => req[r].cleanedData.transaction_type \in TransactionTypes
    /\ \A r \in Reqs :
          req[r].kind = "update"
          => req[r].updatedData.transaction_type \in TransactionTypes
    /\ \A ai \in AIClassifications, fallback \in FallbackOutcomes :
          classifiedType(ai, fallback) \in TransactionTypes

\* an edit has just been applied in a store that holds a record ingested when
\* the classification service could not be reached and the fallback threw
C17_Witness ==
    /\ resp.kind = "update" /\ resp.status = 200
    /\ \E e \in ExtractionIds :
          /\ extractions[e].batch_id = 1
          /\ extractions[e].extracted_data =
                [vendor |-> AcmeCorp, amount |-> <<"2", "5", ".", "9", "9">>,
                 transaction_type |-> "expense"]

\* C18: every stored amount is "Unknown" or a decimal string (digits with at
\* most one point) whose value is at most 999999999999.
C18_AmountsWellFormed ==
    \A e \in ExtractionIds :
        LET amount == extractions[e].extracted_data.amount
        IN \/ amount = Unknown
           \/ /\ \A i \in 1..Len(amount) : amount[i] \in Digits \cup {"."}
              /\ Cardinality({i \in 1..Len(amount) : amount[i] = "."}) <= 1
              /\ \E i \in 1..Len(amount) : amount[i] \in Digits
              /\ ~TooLarge(parseFloat(amount))

\* C19: in both formats the generated rows of a batch are the rows of its
\* extractions whose amount is not missing, "0" or "Unknown", one row for
\* each of them: such an extraction adds no row and removes none; and the
\* body of a successful export is that document.
C19_SkipRule ==
    \A b \in BatchIds :
        LET kept == SelectSeq(ExtractionsOf(b),
                              LAMBDA e : e.extracted_data.amount
                                            \notin {Missing, Zero, Unknown})
        IN /\ \A format \in CsvFormats :
                 /\ generateCSV(format, ExtractionsOf(b)) = generateCSV(format, kept)
                 /\ Len(generateCSV(format, kept)) = Len(kept)
           /\ (resp.kind = "export" /\ resp.status = 200 /\ resp.batchId = b)
              => resp.body = generateCSV(batches[b].csv_format, kept)

\* an export has just returned one row for a batch of two extractions
C19_Witness ==
    /\ resp.kind = "export" /\ resp.status = 200
    /\ Len(resp.body) = 1
    /\ Len(ExtractionsOf(resp.batchId)) = 2

\* C20: in a 3-column export the amount of a row has no minus sign when its
\* extraction is income and has one when it is not.
C20_ThreeColumnSign ==
    \A b \in BatchIds :
        (/\ resp.kind = "export" /\ resp.status = 200 /\ resp.batchId = b
         /\ batches[b].csv_format = "3-column")
        => LET kept == SelectSeq(ExtractionsOf(b),
                                 LAMBDA e : e.extracted_data.amount
                                               \notin {Missing, Zero, Unknown})
           IN /\ Len(resp.body) = Len(kept)
              /\ \A i \in 1..Len(kept) :
                    (kept[i].extracted_data.transaction_type = "income")
                    <=> Head(resp.body[i][1]) # "-"

\* C21: in a 4-column export every row has exactly one of its credit and
\* debit columns filled, with a magnitude (no minus sign): the credit column
\* for an income extraction, the debit column for any other.
C21_FourColumnSplit ==
    \A b \in BatchIds :
        (/\ resp.kind = "export" /\ resp.status = 200 /\ resp.batchId = b
         /\ batches[b].csv_format = "4-column")
        => LET kept == SelectSeq(ExtractionsOf(b),
                                 LAMBDA e : e.extracted_data.amount
                                               \notin {Missing, Zero, Unknown})
           IN /\ Len(resp.body) = Len(kept)
              /\ \A i \in 1..Len(kept) :
                    LET credit == resp.body[i][1]
                        debit == resp.body[i][2]
                        income == kept[i].extracted_data.transaction_type = "income"
                    IN /\ (credit = << >>) # (debit = << >>)
                       /\ income <=> credit # << >>
                       /\ \A column \in {credit, debit} :
                             column = << >> \/ Head(column) # "-"

C24_FallbackPriority ==
    (call.fn = "fallbackClassification" /\ call.returned)
    => LET v == toLowerCase(call.args[1])
           d == toLowerCase(call.args[2])
           a == toLowerCase(call.args[3])
           match == includes(v, a) \/ includes(a, v)
           income == \E k \in incomeKeywords : includes(d, k) \/ includes(v, k)
           expense == \E k \in expenseKeywords : includes(d, k) \/ includes(v, k)
       IN /\ match => call.result = [transaction_type |-> "income", confidence |-> 7]
          /\ (~match /\ income)
             => call.result = [transaction_type |-> "income", confidence |-> 6]
          /\ (~match /\ ~income /\ expense)
             => call.result = [transaction_type |-> "expense", confidence |-> 6]
          /\ (~match /\ ~income /\ ~expense)
             => call.result = [transaction_type |-> "expense", confidence |-> 3]

\* the fallback has returned income for a description with an income and an
\* expense keyword and a vendor that does not match the account name
C24_Witness ==
    /\ call.fn = "fallbackClassification" /\ call.returned
    /\ call.args = <<<<"S", "h", "o", "p">>, <<"i", "n", "v", "o", "i", "c", "e", " ", "f", "e", "e">>, <<"J", "o", "e">>>>
    /\ call.result = [transaction_type |-> "income", confidence |-> 6]

\* C25: classifyTransaction returns the rule-based fallback when the answer
\* of the service is no JSON object with a transaction_type of exactly
\* 'income' or 'expense'; otherwise it returns the type of the answer, with
\* the confidence of the answer when that is a number in [0,1] and 0.5 when
\* not; the type returned is always one of the two and the confidence
\* always in [0,1].
C25_AIOutputValidated ==
    (call.fn = "classifyTransaction" /\ call.returned)
    => LET response == call.args[1]
           wellTyped == /\ response.kind = "json"
                        /\ response.transaction_type \in TransactionTypes
           confidence == response.confidence
       IN /\ ~wellTyped
             => call.result = fallbackClassification(call.args[2], call.args[3],
                                                     call.args[4])
          /\ wellTyped
             => /\ call.result.transaction_type = response.transaction_type
                /\ call.result.confidence =
                      IF /\ confidence.type = "number"
                         /\ confidence.value \in 0..10
                      THEN confidence.value ELSE 5
          /\ call.result.transaction_type \in TransactionTypes
          /\ call.result.confidence \in 0..10

\* an answer of type 'income' with a confidence of 1.1 was returned as
\* income at 0.5, for a transaction the fallback calls an expense
C25_Witness ==
    /\ call.fn = "classifyTransaction" /\ call.returned
    /\ call.args[1] = [kind |-> "json", transaction_type |-> "income",
                       confidence |-> [type |-> "number", value |-> 11]]
    /\ fallbackClassification(call.args[2], call.args[3], call.args[4]).transaction_type
         = "expense"
    /\ call.result = [transaction_type |-> "income", confidence |-> 5]

\* C26: a date text of the form NN/NN/NNNN is accepted exactly when its
\* groups, read as month/day/year for a 3-column batch and as day/month/year
\* for a 4-column batch, name a day that exists in the calendar, in a year
\* from 1900 to 2100.
C26_DateAcceptedIffReal ==
    (call.fn = "validateDate" /\ call.returned /\ dateRegex(call.args[1]))
    => LET first == parseInt(SubSeq(call.args[1], 1, 2))
           second == parseInt(SubSeq(call.args[1], 4, 5))
           year == parseInt(SubSeq(call.args[1], 7, 10))
           month == IF call.args[2] = "4-column" THEN second ELSE first
           day == IF call.args[2] = "4-column" THEN first ELSE second
           leap == year % 4 = 0 /\ (year % 100 # 0 \/ year % 400 = 0)
           last == IF month = 2 THEN (IF leap THEN 29 ELSE 28)
                   ELSE IF month \in {4, 6, 9, 11} THEN 30 ELSE 31
       IN call.result.isValid
          <=> (month \in 1..12 /\ day \in 1..last /\ year \in 1900..2100)

\* 02/29/2024 was accepted for a 3-column batch
C26_Witness ==
    /\ call.fn = "validateDate" /\ call.returned
    /\ call.args = <<<<"0", "2", "/", "2", "9", "/", "2", "0", "2", "4">>, "3-column">>
    /\ call.result.isValid

\* C27: the text returned by the validation of an accepted amount is itself
\* accepted and validates to itself; and the amount written by a successful
\* amount edit is such a text.
C27_AmountValidationIdempotent ==
    /\ \A amount \in AmountInputs :
          validateAmount(amount).isValid
          => validateAmount(validateAmount(amount).cleanedValue)
               = [isValid |-> TRUE, cleanedValue |-> validateAmount(amount).cleanedValue]
    /\ [][\A r \in Reqs :
             (/\ req[r].kind = "update" /\ req[r].field = "amount"
              /\ req'[r] = Idle /\ resp'.status = 200)
             => LET stored == extractions'[req[r].extractionId].extracted_data.amount
                IN validateAmount(stored) = [isValid |-> TRUE, cleanedValue |-> stored]]_vars

\* an edit of the amount to "$1,234.50" has stored "1234.5"
C27_Witness ==
    /\ resp.kind = "update" /\ resp.status = 200
    /\ \E e \in ExtractionIds :
          extractions[e].extracted_data.amount = <<"1", "2", "3", "4", ".", "5">>

\* C28: the sanitized account name holds only letters, digits and
\* underscores, no two underscores in a row and none at its start or end,
\* and sanitizing it again returns it unchanged.
C28_FilenameSanitized ==
    (call.fn = "generateFilename" /\ call.returned)
    => LET name == call.result
       IN /\ \A i \in 1..Len(name) : name[i] \in AlphaNumeric \cup {"_"}
          /\ \A i \in 1..(Len(name) - 1) : ~(name[i] = "_" /\ name[i + 1] = "_")
          /\ name # << >> => (name[1] # "_" /\ name[Len(name)] # "_")
          /\ sanitizedAccountName(name) = name

\* the account name "Joe's Café & Co." was sanitized to "Joe_s_Caf_Co"
C28_Witness ==
    /\ call.fn = "generateFilename" /\ call.returned
    /\ call.args[1] = <<"J", "o", "e", "'", "s", " ", "C", "a", "f", "é", " ", "&", " ", "C", "o", ".">>
    /\ call.result = <<"J", "o", "e", "_", "s", "_", "C", "a", "f", "_", "C", "o">>

\* C29: during a run at most one process-file request of its batch is in
\* flight, and the request for the next file is sent only when none is in
\* flight and the response to the last one has been taken.
C29_ExtractionCallsSerialized ==
    /\ [](Cardinality({r \in Reqs : /\ req[r].kind = "process-file"
                                   /\ req[r].batchId = widget.batchId}) <= 1)
    /\ [][widget'.i # widget.i
           => /\ widget'.i = widget.i + 1
              /\ \A r \in Reqs : req[r].kind # "process-file"
              /\ resp.kind # "process-file"]_vars

\* the request for the second file of a run is in flight
C29_Witness ==
    /\ widget.i = 2 /\ widget.pc = "file"
    /\ \E r \in Reqs : req[r].kind = "process-file" /\ req[r].filename = WidgetFile(2).name
    /\ Len(extractions) = 1

\* C30: a field update that succeeds changes the field it names and leaves
\* every other field of the extraction as it is at the moment of the write,
\* so that of two successful updates of different fields neither undoes
\* the other, whatever the order of their reads and writes.
C30_NoLostUpdate ==
    [][\A r \in Reqs :
          (/\ req[r].kind = "update" /\ req[r].pc = "write"
           /\ req'[r] = Idle /\ resp'.status = 200)
          => LET before == extractions[req[r].extractionId].extracted_data
                 after == extractions'[req[r].extractionId].extracted_data
             IN /\ after[req[r].field] = req[r].updatedData[req[r].field]
                /\ \A other \in DOMAIN before \ {req[r].field} :
                      after[other] = before[other]]_vars

====
